---- MODULE Spec2Model ----
(***************************************************************************)
(* Enrichment method (enrichment_method.py): lookup joins onto a primary   *)
(* table and anomaly detection over the joined table.                      *)
(*                                                                         *)
(* A DataFrame is a record [cols, rows]: cols is the set of column labels, *)
(* rows the sequence of records, each a function from cols to a value.     *)
(* A raised exception is a record [error |-> <exception class>].           *)
(***************************************************************************)
EXTENDS Naturals, Sequences, FiniteSets, TLC

VARIABLES
    pc,                \* position of the method lambda_handler / data_enrichment
    event,             \* the event the method lambda_handler was invoked with
    bucket,            \* contents of the S3 bucket: file name -> DataFrame
    data_df,           \* data_enrichment: the running (joined) table
    required_columns,  \* data_enrichment: the collected 'required' lists
    anomalies,         \* data_enrichment: the anomalies accumulator
    idx,               \* data_enrichment: position in the current for-loop
    error_message,     \* lambda_handler: error_message
    result,            \* lambda_handler: the returned dict (NoResult before return)
    previous,          \* the inputs and result of the invocation before this one
    call,              \* unit harness: the function called and its arguments
    ret,               \* unit harness: what the call returned (NoResult before)
    w_pc,              \* wrangler lambda_handler: position
    w_event,           \* wrangler lambda_handler: the event it was invoked with
    context,           \* wrangler lambda_handler: the context argument
    checkpoint,        \* wrangler lambda_handler: checkpoint (Unbound until assigned)
    w_output,          \* wrangler lambda_handler: final_output / anomalies
    sqs,               \* messages sent to the SQS queue, in order
    sns,               \* messages published to the SNS topic, in order
    w_error_message,   \* wrangler lambda_handler: error_message
    w_result           \* wrangler lambda_handler: the returned dict, or what it raised

wranglerVars == <<w_pc, w_event, context, checkpoint, w_output, sqs, sns,
                  w_error_message, w_result>>

vars == <<pc, event, bucket, data_df, required_columns, anomalies, idx,
          error_message, result, previous, call, ret, wranglerVars>>

----------------------------------------------------------------------------
(* Bounds of the model *)
MaxRows == 2        \* records in a primary table
MaxLookupRows == 2  \* records in a lookup table
MaxLookups == 2     \* configured lookups in one event

----------------------------------------------------------------------------
(* Values *)
Null == "null"      \* pandas NaN / None
NoResult == [none |-> TRUE]

Err(kind) == [error |-> kind]
IsErr(x) == "error" \in DOMAIN x

Range(s) == {s[i] : i \in DOMAIN s}

\* All sequences over S of length at most n.
SeqsUpTo(S, n) == UNION {[1..k -> S] : k \in 0..n}

\* pd.DataFrame()
EmptyFrame == [cols |-> {}, rows |-> <<>>]

----------------------------------------------------------------------------
(* pandas primitives the method uses *)

\* Mutant of SelectColumns: a label that is no column of df is skipped.
SelectColumnsPresent(df, keep) ==
    [cols |-> keep \cap df.cols,
     rows |-> [i \in DOMAIN df.rows |->
                 [c \in keep \cap df.cols |-> df.rows[i][c]]]]

\* df[[c1, c2, ...]]: KeyError when a label is not a column of df.
SelectColumns(df, keep) ==
    IF keep \subseteq df.cols
    THEN [cols |-> keep,
          rows |-> [i \in DOMAIN df.rows |-> [c \in keep |-> df.rows[i][c]]]]
    ELSE Err("KeyError")

\* pd.concat([a, b]): rows of a then rows of b, over the union of the
\* columns, a missing cell filled with null.
Concat(a, b) ==
    LET cs == a.cols \cup b.cols
        Fill(r) == [c \in cs |-> IF c \in DOMAIN r THEN r[c] ELSE Null]
    IN [cols |-> cs,
        rows |-> [i \in DOMAIN a.rows |-> Fill(a.rows[i])]
                 \o [i \in DOMAIN b.rows |-> Fill(b.rows[i])]]

\* frame["issue"] = text
WithIssue(cols, rows, text) ==
    [cols |-> cols \cup {"issue"},
     rows |-> [i \in DOMAIN rows |->
                 [c \in cols \cup {"issue"} |->
                     IF c = "issue" THEN text ELSE rows[i][c]]]]

\* pd.merge(left, right, on=on, how="left")
\* Labels shared by both sides other than the key get the suffixes _x and _y.
\* Key equality includes null: pandas matches a null key with a null key.
LeftName(left, right, on, c) ==
    IF c \in right.cols /\ c # on THEN c \o "_x" ELSE c
RightName(left, right, on, c) ==
    IF c \in left.cols THEN c \o "_y" ELSE c

\* Mutant of MergedRow: an unmatched record gets empty strings, not nulls.
MergedRowBlank(left, right, on, l, r, matched) ==
    LET lnames == {LeftName(left, right, on, c) : c \in left.cols}
        rnames == {RightName(left, right, on, c) : c \in right.cols \ {on}}
    IN [k \in lnames \cup rnames |->
          IF k \in lnames
          THEN l[CHOOSE c \in left.cols : LeftName(left, right, on, c) = k]
          ELSE IF matched
               THEN r[CHOOSE c \in right.cols \ {on} :
                          RightName(left, right, on, c) = k]
               ELSE ""]

MergedRow(left, right, on, l, r, matched) ==
    LET lnames == {LeftName(left, right, on, c) : c \in left.cols}
        rnames == {RightName(left, right, on, c) : c \in right.cols \ {on}}
    IN [k \in lnames \cup rnames |->
          IF k \in lnames
          THEN l[CHOOSE c \in left.cols : LeftName(left, right, on, c) = k]
          ELSE IF matched
               THEN r[CHOOSE c \in right.cols \ {on} :
                          RightName(left, right, on, c) = k]
               ELSE Null]

\* Mutant of merge_rows: how="inner", an unmatched record is dropped.
RECURSIVE merge_rows_inner(_, _, _, _)
merge_rows_inner(left, right, on, lrows) ==
    IF lrows = <<>> THEN <<>>
    ELSE LET l == Head(lrows)
             ms == SelectSeq(right.rows, LAMBDA r : r[on] = l[on])
         IN [j \in DOMAIN ms |-> MergedRow(left, right, on, l, ms[j], TRUE)]
            \o merge_rows_inner(left, right, on, Tail(lrows))

\* Mutant of merge_rows: the result is built back to front.
RECURSIVE merge_rows_reversed(_, _, _, _)
merge_rows_reversed(left, right, on, lrows) ==
    IF lrows = <<>> THEN <<>>
    ELSE LET l == Head(lrows)
             ms == SelectSeq(right.rows, LAMBDA r : r[on] = l[on])
             out == IF ms = <<>>
                    THEN <<MergedRow(left, right, on, l, l, FALSE)>>
                    ELSE [j \in DOMAIN ms |->
                             MergedRow(left, right, on, l, ms[j], TRUE)]
         IN merge_rows_reversed(left, right, on, Tail(lrows)) \o out

RECURSIVE merge_rows(_, _, _, _)
merge_rows(left, right, on, lrows) ==
    IF lrows = <<>> THEN <<>>
    ELSE LET l == Head(lrows)
             ms == SelectSeq(right.rows, LAMBDA r : r[on] = l[on])
             out == IF ms = <<>>
                    THEN <<MergedRow(left, right, on, l, l, FALSE)>>
                    ELSE [j \in DOMAIN ms |->
                             MergedRow(left, right, on, l, ms[j], TRUE)]
         IN out \o merge_rows(left, right, on, Tail(lrows))

pd_merge(left, right, on) ==
    IF on \notin left.cols \/ on \notin right.cols THEN Err("KeyError")
    ELSE LET lnames == {LeftName(left, right, on, c) : c \in left.cols}
             rnames == {RightName(left, right, on, c) : c \in right.cols \ {on}}
         IN IF Cardinality(lnames \cup rnames)
                 < Cardinality(left.cols) + Cardinality(right.cols) - 1
            THEN Err("MergeError")   \* the suffixes would duplicate a label
            ELSE [cols |-> lnames \cup rnames,
                  rows |-> merge_rows(left, right, on, left.rows)]

\* aws_functions.read_dataframe_from_s3(bucket_name, key)
read_dataframe_from_s3(bkt, key) ==
    IF key \in DOMAIN bkt THEN bkt[key] ELSE Err("ClientError")

----------------------------------------------------------------------------
(* enrichment_method.py *)

do_merge(input_data, join_data, columns_to_keep, join_column, bkt) ==
    LET join_dataframe == read_dataframe_from_s3(bkt, join_data)
    IN IF IsErr(join_dataframe) THEN join_dataframe
       ELSE LET kept == SelectColumns(join_dataframe, Range(columns_to_keep))
            IN IF IsErr(kept) THEN kept
               ELSE pd_merge(input_data, kept, join_column)

IssueMissing(column_to_check) == column_to_check \o " missing in lookup."

RECURSIVE missing_loop(_, _, _)
missing_loop(data, columns_to_check, data_without_columns) ==
    IF columns_to_check = <<>> THEN data_without_columns
    ELSE LET column_to_check == Head(columns_to_check)
         IN IF column_to_check \notin data.cols THEN Err("KeyError")
            ELSE LET sel == SelectSeq(data.rows,
                                LAMBDA r : r[column_to_check] = Null)
                     data_without_column ==
                         WithIssue(data.cols, sel, IssueMissing(column_to_check))
                 IN missing_loop(data, Tail(columns_to_check),
                                 Concat(data_without_columns, data_without_column))

missing_column_detector(data, columns_to_check, identifier_column) ==
    LET data_without_columns == missing_loop(data, columns_to_check, EmptyFrame)
    IN IF IsErr(data_without_columns) THEN data_without_columns
       ELSE SelectColumns(data_without_columns, {identifier_column, "issue"})

IssueMarine == "Reference should not produce marine data."

\* Mutant of MarineSelected: the flag is compared ignoring case.
MarineSelectedAnyCase(r, survey_column, check_column) ==
    r[survey_column] = "076" /\ r[check_column] \in {"n", "N"}

MarineSelected(r, survey_column, check_column) ==
    r[survey_column] = "076" /\ r[check_column] = "n"

marine_mismatch_detector(data, survey_column, check_column, period_column, identifier_column) ==
    IF survey_column \notin data.cols \/ check_column \notin data.cols
    THEN Err("KeyError")
    ELSE LET bad_data == SelectSeq(data.rows,
                LAMBDA r : MarineSelected(r, survey_column, check_column))
         IN SelectColumns(WithIssue(data.cols, bad_data, IssueMarine),
                          {identifier_column, "issue", survey_column,
                           check_column, period_column})

\* pd.read_json(data, dtype=False): data is a JSON list of records; the
\* columns are the keys that occur, a key a record lacks reads as null.
read_json(records) ==
    LET cs == UNION {DOMAIN records[i] : i \in DOMAIN records}
    IN [cols |-> cs,
        rows |-> [i \in DOMAIN records |->
                    [c \in cs |-> IF c \in DOMAIN records[i]
                                  THEN records[i][c] ELSE Null]]]

\* df.to_json(orient="records"): the list of records; the column labels of
\* a frame without rows are not written.
to_json(df) == df.rows

\* general_functions.handle_exception(e, current_module, run_id, context)
handle_exception(e, current_module) ==
    e.error \o " in " \o current_module

\* Mutant of Returned: the error result also carries (empty) output fields.
ReturnedWithOutput(msg, final_output) ==
    IF Len(msg) > 0
    THEN [success |-> FALSE, error |-> msg, data |-> <<>>, anomalies |-> <<>>]
    ELSE [data |-> final_output.data, anomalies |-> final_output.anomalies,
          success |-> TRUE]

\* lambda_handler, the finally block and the lines after it: what is returned
\* given error_message and final_output.
Returned(msg, final_output) ==
    IF Len(msg) > 0
    THEN [success |-> FALSE, error |-> msg]
    ELSE [data |-> final_output.data, anomalies |-> final_output.anomalies,
          success |-> TRUE]

----------------------------------------------------------------------------
(* Inputs *)

Table(cols, rows) == [cols |-> cols, rows |-> rows]

\* Every table over the columns of the row values, with at most n rows.
Tables(cols, rowValues, n) ==
    {Table(cols, rs) : rs \in SeqsUpTo(rowValues, n)}

\* --- do_merge, called on its own
MergePrimaries ==
    Tables({"responder_id", "survey"},
           {[responder_id |-> i, survey |-> "076"] : i \in {"r1", "r2", Null}},
           MaxRows)
    \cup
    Tables({"responder_id", "survey", "county"},
           {[responder_id |-> i, survey |-> "076", county |-> "c9"] :
               i \in {"r1", "r2"}},
           MaxRows)

MergeLookups ==
    Tables({"responder_id", "county"},
           {[responder_id |-> i, county |-> c] :
               i \in {"r1", "r2"}, c \in {"c1", Null}},
           MaxLookupRows)

MergeKeeps == {<<"responder_id", "county">>, <<"responder_id">>,
               <<"county">>, <<"responder_id", "region">>}

MergeJoins == {"responder_id", "county"}

\* --- missing_column_detector, called on its own
MissingTables ==
    Tables({"responder_id", "county", "marine"},
           {[responder_id |-> i, county |-> c, marine |-> m] :
               i \in {"r1", "r2"}, c \in {"c1", Null}, m \in {"n", Null}},
           MaxRows)
    \cup {EmptyFrame}

MaxCheck == 2   \* columns in a columns_to_check list
MissingColumnLists ==
    SeqsUpTo({"county", "marine"}, MaxCheck) \cup {<<"region">>}

\* --- marine_mismatch_detector, called on its own
MarineTables ==
    Tables({"responder_id", "survey", "period", "marine"},
           {[responder_id |-> "r1", survey |-> s, period |-> "201809",
             marine |-> m] :
               s \in {"076", "066"}, m \in {"n", "N", "y", Null}},
           MaxRows)
    \cup
    Tables({"responder_id", "survey", "period"},
           {[responder_id |-> "r1", survey |-> s, period |-> "201809"] :
               s \in {"076", "066"}},
           MaxRows)

----------------------------------------------------------------------------
(* The functions called on their own *)

\* A local variable of the wrangler: not yet assigned, or assigned v.
Unbound == [bound |-> FALSE]
Bound(v) == [bound |-> TRUE, value |-> v]

\* The wrangler lambda_handler is not running.
WranglerIdle ==
    /\ w_pc = "idle"
    /\ w_event = NoResult
    /\ context = NoResult
    /\ checkpoint = Unbound
    /\ w_output = NoResult
    /\ sqs = <<>>
    /\ sns = <<>>
    /\ w_error_message = ""
    /\ w_result = NoResult

Idle ==
    /\ pc = "unit"
    /\ event = NoResult
    /\ data_df = EmptyFrame
    /\ required_columns = <<>>
    /\ anomalies = EmptyFrame
    /\ idx = 0
    /\ error_message = ""
    /\ result = NoResult
    /\ previous = NoResult
    /\ WranglerIdle

InitMerge ==
    /\ Idle
    /\ ret = NoResult
    /\ \E p \in MergePrimaries, l \in MergeLookups,
          k \in MergeKeeps, j \in MergeJoins :
          /\ bucket = [responder_lookup |-> l]
          /\ call = [fn |-> "do_merge", input_data |-> p,
                     join_data |-> "responder_lookup",
                     columns_to_keep |-> k, join_column |-> j]

CallMerge ==
    /\ call.fn = "do_merge"
    /\ ret = NoResult
    /\ ret' = do_merge(call.input_data, call.join_data, call.columns_to_keep,
                       call.join_column, bucket)
    /\ UNCHANGED <<pc, event, bucket, data_df, required_columns, anomalies,
                   idx, error_message, result, previous, call, wranglerVars>>

SpecMerge == InitMerge /\ [][CallMerge]_vars

InitMissing ==
    /\ Idle
    /\ ret = NoResult
    /\ bucket = <<>>
    /\ \E t \in MissingTables, c \in MissingColumnLists :
          call = [fn |-> "missing_column_detector", data |-> t,
                  columns_to_check |-> c, identifier_column |-> "responder_id"]

CallMissing ==
    /\ call.fn = "missing_column_detector"
    /\ ret = NoResult
    /\ ret' = missing_column_detector(call.data, call.columns_to_check,
                                      call.identifier_column)
    /\ UNCHANGED <<pc, event, bucket, data_df, required_columns, anomalies,
                   idx, error_message, result, previous, call, wranglerVars>>

SpecMissing == InitMissing /\ [][CallMissing]_vars

InitMarine ==
    /\ Idle
    /\ ret = NoResult
    /\ bucket = <<>>
    /\ \E t \in MarineTables :
          call = [fn |-> "marine_mismatch_detector", data |-> t,
                  survey_column |-> "survey", check_column |-> "marine",
                  period_column |-> "period",
                  identifier_column |-> "responder_id"]

CallMarine ==
    /\ call.fn = "marine_mismatch_detector"
    /\ ret = NoResult
    /\ ret' = marine_mismatch_detector(call.data, call.survey_column,
                                       call.check_column, call.period_column,
                                       call.identifier_column)
    /\ UNCHANGED <<pc, event, bucket, data_df, required_columns, anomalies,
                   idx, error_message, result, previous, call, wranglerVars>>

SpecMarine == InitMarine /\ [][CallMarine]_vars

----------------------------------------------------------------------------
(* The method lambda_handler and data_enrichment, step by step *)

\* --- inputs of an invocation
ResponderSpec ==
    [file_name |-> "responder_lookup", join_column |-> "responder_id",
     columns_to_keep |-> <<"responder_id", "county">>,
     required |-> <<"county">>]
CountySpec ==
    [file_name |-> "county_lookup", join_column |-> "county",
     columns_to_keep |-> <<"county", "marine">>,
     required |-> <<"marine">>]
LookupSpecs ==
    {ResponderSpec, CountySpec,
     [ResponderSpec EXCEPT !.required = <<"county", "marine">>],
     [CountySpec EXCEPT !.required = <<>>]}

PrimaryRecords ==
    {[responder_id |-> "r1", survey |-> "076", period |-> "201809"],
     [responder_id |-> "r2", survey |-> "076", period |-> "201809"],
     [responder_id |-> "r1", survey |-> "066", period |-> "201809"]}

Flags == {"true", "false", "True"}

Events ==
    {[RuntimeVariables |->
        [run_id |-> "run1", data |-> d, identifier_column |-> "responder_id",
         lookups |-> ls, marine_mismatch_check |-> f,
         period_column |-> "period", survey_column |-> "survey"]] :
        d \in SeqsUpTo(PrimaryRecords, MaxRows),
        ls \in SeqsUpTo(LookupSpecs, MaxLookups),
        f \in Flags}
    \cup {[RuntimeVariables |-> [checkpoint |-> "666"]]}

ResponderLookups ==
    {Table({"responder_id", "county"}, rs) : rs \in
        {<<[responder_id |-> "r1", county |-> "c1"]>>,
         <<[responder_id |-> "r1", county |-> "c1"],
           [responder_id |-> "r1", county |-> Null]>>,
         <<[responder_id |-> "r1", county |-> Null],
           [responder_id |-> "r2", county |-> "c1"]>>}}
CountyLookups ==
    {Table({"county", "marine"}, rs) : rs \in
        {<<[county |-> "c1", marine |-> "n"]>>,
         <<[county |-> "c1", marine |-> "y"]>>}}
Buckets ==
    {[responder_lookup |-> r, county_lookup |-> c] :
        r \in ResponderLookups, c \in CountyLookups}

\* --- control flow of data_enrichment
\* Mutant of MarineCheckEnabled: every value but "false" enables the check.
MarineCheckNotFalse(flag) == flag # "false"

MarineCheckEnabled(flag) == flag = "true"

\* where data_enrichment continues once the missing-value loop has run i-1
\* of the n collected lists
PcAfterDetect(i, n, flag) ==
    IF i <= n THEN "detect"
    ELSE IF MarineCheckEnabled(flag) THEN "marine" ELSE "return"

\* Mutant of PcAfterMerge: the detectors start after the first join.
PcAfterFirstMerge(i, lookups, n, flag) == PcAfterDetect(1, n, flag)

\* where data_enrichment continues once the lookup loop has run i-1 of the
\* lookups; n lists have been collected by then
PcAfterMerge(i, lookups, n, flag) ==
    IF i <= Len(lookups) THEN "merge" ELSE PcAfterDetect(1, n, flag)

\* Mutant of AppendMissing: the newly detected rows are put first.
PrependMissing(acc, detected) == Concat(detected, acc)

\* Mutant of AppendMissing: a row already collected is not added again.
AppendMissingOnce(acc, detected) ==
    Concat(acc, [cols |-> detected.cols,
                 rows |-> SelectSeq(detected.rows,
                     LAMBDA r : \A i \in DOMAIN acc.rows :
                         \E c \in detected.cols : acc.rows[i][c] # r[c])])

\* Mutant of NewRequiredColumns: the list of an earlier call is kept.
KeptRequiredColumns(stale) == stale

\* required_columns = []
NewRequiredColumns(stale) == <<>>

\* anomalies = pd.concat([anomalies, <detected>])
AppendMissing(acc, detected) == Concat(acc, detected)

\* Mutant of PrependMarine: the marine rows are put last.
AppendMarine(marine_anomalies, acc) == Concat(acc, marine_anomalies)

\* anomalies = pd.concat([marine_anomalies, anomalies])
PrependMarine(marine_anomalies, acc) == Concat(marine_anomalies, acc)

RuntimeKeys == {"data", "identifier_column", "lookups",
                "marine_mismatch_check", "period_column", "survey_column"}

rv == event.RuntimeVariables

\* except Exception ... finally ... return
Raise(e) ==
    /\ error_message' = handle_exception(e, "Enrichment - Method")
    /\ result' = Returned(error_message', NoResult)
    /\ pc' = "done"

Init ==
    /\ pc = "start"
    /\ event \in Events
    /\ bucket \in Buckets
    /\ data_df = EmptyFrame
    /\ required_columns = <<>>
    /\ anomalies = EmptyFrame
    /\ idx = 0
    /\ error_message = ""
    /\ result = NoResult
    /\ previous = NoResult
    /\ call = NoResult
    /\ ret = NoResult
    /\ WranglerIdle

\* lambda_handler up to the call of data_enrichment
Begin ==
    /\ pc = "start"
    /\ \E environ_ok \in BOOLEAN :
          LET e == IF "run_id" \notin DOMAIN rv THEN Err("KeyError")
                   ELSE IF ~environ_ok THEN Err("ValueError")
                   ELSE IF ~(RuntimeKeys \subseteq DOMAIN rv)
                        THEN Err("KeyError")
                   ELSE NoResult
          IN IF e # NoResult
             THEN /\ Raise(e)
                  /\ UNCHANGED <<data_df, idx, required_columns, anomalies>>
             ELSE /\ data_df' = read_json(rv.data)
                  /\ required_columns' = NewRequiredColumns(required_columns)
                  /\ idx' = 1
                  /\ pc' = PcAfterMerge(1, rv.lookups, 0,
                                        rv.marine_mismatch_check)
                  /\ anomalies' = IF pc' = "merge" THEN anomalies
                                  ELSE EmptyFrame
                  /\ UNCHANGED <<error_message, result>>
    /\ UNCHANGED <<event, bucket, previous, call, ret, wranglerVars>>

\* one iteration of 'for lookup in lookups'
MergeStep ==
    /\ pc = "merge"
    /\ LET lookup == rv.lookups[idx]
           merged == do_merge(data_df, lookup.file_name,
                              lookup.columns_to_keep, lookup.join_column,
                              bucket)
       IN /\ required_columns' = Append(required_columns, lookup.required)
          /\ IF IsErr(merged)
             THEN /\ Raise(merged)
                  /\ UNCHANGED <<data_df, idx, anomalies>>
             ELSE /\ data_df' = merged
                  /\ idx' = IF idx < Len(rv.lookups) THEN idx + 1 ELSE 1
                  /\ pc' = PcAfterMerge(idx + 1, rv.lookups,
                                        Len(required_columns'),
                                        rv.marine_mismatch_check)
                  /\ anomalies' = IF pc' = "merge" THEN anomalies
                                  ELSE EmptyFrame
                  /\ UNCHANGED <<error_message, result>>
    /\ UNCHANGED <<event, bucket, previous, call, ret, wranglerVars>>

\* one iteration of 'for column in required_columns'
DetectStep ==
    /\ pc = "detect"
    /\ LET detected == missing_column_detector(data_df, required_columns[idx],
                                               rv.identifier_column)
       IN IF IsErr(detected)
          THEN /\ Raise(detected)
               /\ UNCHANGED <<anomalies, idx>>
          ELSE /\ anomalies' = AppendMissing(anomalies, detected)
               /\ idx' = idx + 1
               /\ pc' = PcAfterDetect(idx + 1, Len(required_columns),
                                      rv.marine_mismatch_check)
               /\ UNCHANGED <<error_message, result>>
    /\ UNCHANGED <<event, bucket, data_df, required_columns, previous, call,
                   ret, wranglerVars>>

\* the marine mismatch check
MarineStep ==
    /\ pc = "marine"
    /\ LET marine_anomalies ==
               marine_mismatch_detector(data_df, rv.survey_column, "marine",
                                        rv.period_column, rv.identifier_column)
       IN IF IsErr(marine_anomalies)
          THEN /\ Raise(marine_anomalies)
               /\ UNCHANGED anomalies
          ELSE /\ anomalies' = PrependMarine(marine_anomalies, anomalies)
               /\ pc' = "return"
               /\ UNCHANGED <<error_message, result>>
    /\ UNCHANGED <<event, bucket, data_df, required_columns, idx, previous,
                   call, ret, wranglerVars>>

\* data_enrichment returns; lambda_handler serialises and returns
Return ==
    /\ pc = "return"
    /\ result' = Returned(error_message,
                          [data |-> to_json(data_df),
                           anomalies |-> to_json(anomalies)])
    /\ pc' = "done"
    /\ UNCHANGED <<event, bucket, data_df, required_columns, anomalies, idx,
                   error_message, previous, call, ret, wranglerVars>>

Next == Begin \/ MergeStep \/ DetectStep \/ MarineStep \/ Return

Spec == Init /\ [][Next]_vars

\* The caller invokes lambda_handler once more with the same event, against
\* the same bucket; the locals of the first invocation are whatever it left.
Reinvoke ==
    /\ pc = "done"
    /\ previous = NoResult
    /\ previous' = [event |-> event, bucket |-> bucket, result |-> result]
    /\ pc' = "start"
    /\ error_message' = ""
    /\ result' = NoResult
    /\ UNCHANGED <<event, bucket, data_df, required_columns, anomalies, idx,
                   call, ret, wranglerVars>>

NextTwice == Next \/ Reinvoke

SpecTwice == Init /\ [][NextTwice]_vars

----------------------------------------------------------------------------
(* Properties of do_merge (SpecMerge) *)

MergeReturned == call.fn = "do_merge" /\ ret # NoResult
MergeP == call.input_data
MergeL == bucket[call.join_data]
MergeKept == Range(call.columns_to_keep)

\* A well-formed lookup specification: the join column is a column of the
\* primary table and of the lookup as restricted to columns_to_keep.
MergeWellFormed ==
    /\ call.join_column \in MergeP.cols
    /\ MergeKept \subseteq MergeL.cols
    /\ call.join_column \in MergeKept

\* Lookup records whose key equals the key of primary record i.
MatchesOf(i) ==
    {j \in DOMAIN MergeL.rows :
        MergeL.rows[j][call.join_column] = MergeP.rows[i][call.join_column]}

LookupKeysUnique ==
    \A a, b \in DOMAIN MergeL.rows :
        a # b => MergeL.rows[a][call.join_column] # MergeL.rows[b][call.join_column]

\* The label a primary column c carries in the merged table R.
PrimaryLabel(R, c) == IF c \in R.cols THEN c ELSE c \o "_x"
\* The label a lookup column c carries in the merged table R.
LookupLabel(R, c) == IF c \in MergeP.cols THEN c \o "_y" ELSE c

\* Record i of the primary table is row j of R.
AppearsAt(R, i, j) ==
    \A c \in MergeP.cols : R.rows[j][PrimaryLabel(R, c)] = MergeP.rows[i][c]

\* C1: for a primary table P and a lookup L with the join column in both,
\* do_merge returns a table R with len(P) <= len(R), len(P) = len(R) when the
\* join-column values of L are unique, and every record of P appears in R.
C1_LeftJoin ==
    (MergeReturned /\ MergeWellFormed) =>
        /\ ~IsErr(ret)
        /\ Len(MergeP.rows) <= Len(ret.rows)
        /\ LookupKeysUnique => Len(MergeP.rows) = Len(ret.rows)
        /\ \A i \in DOMAIN MergeP.rows :
              \E j \in DOMAIN ret.rows : AppearsAt(ret, i, j)

\* A merge that fans out (two lookup records share a key) next to a primary
\* record no lookup record matches.
C1_Witness ==
    /\ MergeReturned /\ MergeWellFormed /\ ~IsErr(ret)
    /\ Len(ret.rows) > Len(MergeP.rows)
    /\ \E i \in DOMAIN MergeP.rows : MatchesOf(i) = {}

\* Anomaly rows the missing-value check reports for lookup column c of R.
FlaggedFor(R, c) ==
    missing_column_detector(R, <<LookupLabel(R, c)>>, "responder_id")

Unmatched == {i \in DOMAIN MergeP.rows : MatchesOf(i) = {}}

LookupOrigin == MergeKept \ {call.join_column}

\* Pairs (primary record, matching lookup record null in column c).
MatchedToNull(c) ==
    {<<i, j>> \in (DOMAIN MergeP.rows) \X (DOMAIN MergeL.rows) :
        j \in MatchesOf(i) /\ MergeL.rows[j][c] = Null}

MergeChecked ==
    /\ MergeReturned /\ MergeWellFormed /\ ~IsErr(ret)
    /\ call.join_column = "responder_id"

\* C6 as stated: every primary record that matches no lookup record appears
\* in the result with all lookup-origin columns null, and a later
\* missing-value check on a lookup column flags exactly those records.
C6_FlagsExactlyUnmatched ==
    MergeChecked =>
        /\ \A i \in Unmatched : \E j \in DOMAIN ret.rows :
              /\ AppearsAt(ret, i, j)
              /\ \A c \in LookupOrigin : ret.rows[j][LookupLabel(ret, c)] = Null
        /\ \A c \in LookupOrigin :
              Len(FlaggedFor(ret, c).rows) = Cardinality(Unmatched)

\* C6 (amended): every primary record that matches no lookup record appears
\* in the result with all lookup-origin columns null; a later missing-value
\* check on a lookup column flags those records and, besides them, only the
\* records matched to a lookup record that is itself null in that column.
C6_UnmatchedAreNull ==
    MergeChecked =>
        /\ \A i \in Unmatched : \E j \in DOMAIN ret.rows :
              /\ AppearsAt(ret, i, j)
              /\ \A c \in LookupOrigin : ret.rows[j][LookupLabel(ret, c)] = Null
        /\ \A c \in LookupOrigin :
              /\ ~IsErr(FlaggedFor(ret, c))
              /\ Len(FlaggedFor(ret, c).rows)
                    = Cardinality(Unmatched) + Cardinality(MatchedToNull(c))
              /\ \A i \in Unmatched : \E k \in DOMAIN FlaggedFor(ret, c).rows :
                    FlaggedFor(ret, c).rows[k].responder_id
                        = MergeP.rows[i].responder_id

\* An unmatched primary record next to one matched to a non-null lookup value.
C6_Witness ==
    /\ MergeChecked
    /\ Unmatched # {}
    /\ LookupOrigin # {}
    /\ \E i \in DOMAIN MergeP.rows : \E j \in MatchesOf(i) :
          \A c \in LookupOrigin : MergeL.rows[j][c] # Null

----------------------------------------------------------------------------
(* Properties of missing_column_detector (SpecMissing) *)

MissingReturned == call.fn = "missing_column_detector" /\ ret # NoResult

\* The listed columns and the identifier column are columns of the table.
MissingColumnsExist ==
    /\ Range(call.columns_to_check) \subseteq call.data.cols
    /\ call.identifier_column \in call.data.cols

\* (position in the list, record) pairs where the record is null in the column
NullCells ==
    {<<k, i>> \in (DOMAIN call.columns_to_check) \X (DOMAIN call.data.rows) :
        call.data.rows[i][call.columns_to_check[k]] = Null}

\* C2: for every table T and column list C (the empty list included) the
\* detector returns exactly as many anomaly rows as the sum over the columns
\* c in C of the number of records of T null in c.
C2_RowPerNull ==
    (MissingReturned /\ MissingColumnsExist) =>
        /\ ~IsErr(ret)
        /\ Len(ret.rows) = Cardinality(NullCells)

\* The same for a list of at least one column: this part the code satisfies.
C2_RowPerNullNonEmptyList ==
    (MissingReturned /\ MissingColumnsExist /\ call.columns_to_check # <<>>) =>
        /\ ~IsErr(ret)
        /\ Len(ret.rows) = Cardinality(NullCells)

\* C5: the detector never raises on a table without records, whatever the
\* list of columns to check, and returns an empty anomaly collection.
C5_EmptyTableNeverRaises ==
    (MissingReturned /\ MissingColumnsExist /\ call.data.rows = <<>>) =>
        /\ ~IsErr(ret)
        /\ ret.rows = <<>>

----------------------------------------------------------------------------
(* Properties of marine_mismatch_detector (SpecMarine) *)

MarineReturned == call.fn = "marine_mismatch_detector" /\ ret # NoResult

FlagColumnPresent == call.check_column \in call.data.cols

\* Records with survey "076" and flag "n".
Mismatched ==
    {i \in DOMAIN call.data.rows :
        /\ call.data.rows[i][call.survey_column] = "076"
        /\ FlagColumnPresent
        /\ call.data.rows[i][call.check_column] = "n"}

\* C3 as stated: a row is returned for a record iff its survey is "076" and
\* its flag is "n"; the result is empty otherwise, also when the flag column
\* is absent, and the detector does not raise in that case.
C3_NeverRaises ==
    MarineReturned =>
        /\ ~IsErr(ret)
        /\ Len(ret.rows) = Cardinality(Mismatched)

\* C3 (amended): with the flag column present a row is returned for a record
\* iff its survey is "076" and its flag is "n" (exact match), so the result is
\* empty when no record has both, a null flag included; with the flag column
\* absent from the table the detector raises KeyError.
C3_RowsIffMismatch ==
    MarineReturned =>
        IF FlagColumnPresent
        THEN /\ ~IsErr(ret)
             /\ Len(ret.rows) = Cardinality(Mismatched)
             /\ \A k \in DOMAIN ret.rows :
                   /\ ret.rows[k][call.survey_column] = "076"
                   /\ ret.rows[k][call.check_column] = "n"
                   /\ ret.rows[k].issue = "Reference should not produce marine data."
        ELSE ret = Err("KeyError")

\* One record returned next to a "076" record whose flag is "N".
C3_Witness ==
    /\ MarineReturned /\ FlagColumnPresent /\ ~IsErr(ret)
    /\ Len(ret.rows) = 1
    /\ \E i \in DOMAIN call.data.rows :
          /\ call.data.rows[i][call.survey_column] = "076"
          /\ call.data.rows[i][call.check_column] = "N"

----------------------------------------------------------------------------
(* Properties of data_enrichment and the method lambda_handler (Spec) *)

Done == pc = "done"
Succeeded == Done /\ result.success
WellFormedEvent == "run_id" \in DOMAIN rv /\ RuntimeKeys \subseteq DOMAIN rv

\* The primary table joined with the first k configured lookups, in order.
RECURSIVE JoinedThrough(_)
JoinedThrough(k) ==
    IF k = 0 THEN read_json(rv.data)
    ELSE LET prev == JoinedThrough(k - 1)
         IN IF IsErr(prev) THEN prev
            ELSE do_merge(prev, rv.lookups[k].file_name,
                          rv.lookups[k].columns_to_keep,
                          rv.lookups[k].join_column, bucket)

\* The table after the last configured join.
FullyJoined == JoinedThrough(Len(rv.lookups))

\* The missing-value check of lookup k's required list on the final table.
MissingOf(k) ==
    missing_column_detector(FullyJoined, rv.lookups[k].required,
                            rv.identifier_column)

MarineOfFinal ==
    marine_mismatch_detector(FullyJoined, rv.survey_column, "marine",
                             rv.period_column, rv.identifier_column)

\* A join or a detector of this invocation raises.
EnrichmentFails ==
    \/ IsErr(FullyJoined)
    \/ \E k \in DOMAIN rv.lookups : IsErr(MissingOf(k))
    \/ rv.marine_mismatch_check = "true" /\ IsErr(MarineOfFinal)

\* C4: when a join or detector step fails the caller receives only an error:
\* success = False with a message and neither "data" nor "anomalies"; a result
\* with success = True carries both "data" and "anomalies".
C4_FailureReturnsOnlyError ==
    /\ ~Done => result = NoResult
    /\ Done =>
        /\ result.success => DOMAIN result = {"success", "data", "anomalies"}
        /\ ~result.success =>
              /\ DOMAIN result = {"success", "error"}
              /\ result.error # ""
        /\ (WellFormedEvent /\ EnrichmentFails) => ~result.success

\* A detector fails after an earlier detector has already collected anomalies.
C4_Witness ==
    /\ Done /\ ~result.success
    /\ WellFormedEvent /\ ~IsErr(FullyJoined)
    /\ anomalies.rows # <<>>

IsMarineRow(r) == r.issue = "Reference should not produce marine data."

\* C7: with the marine-mismatch check enabled, every marine-mismatch row of
\* the returned anomalies comes before every missing-value row.
C7_MarineRowsFirst ==
    (Succeeded /\ rv.marine_mismatch_check = "true") =>
        \A p, q \in DOMAIN result.anomalies :
            (IsMarineRow(result.anomalies[p]) /\ ~IsMarineRow(result.anomalies[q]))
                => p < q

\* Both kinds of row are returned.
C7_Witness ==
    /\ Succeeded /\ rv.marine_mismatch_check = "true"
    /\ \E p, q \in DOMAIN result.anomalies :
          IsMarineRow(result.anomalies[p]) /\ ~IsMarineRow(result.anomalies[q])

\* (identifier, issue) of the anomaly rows that are not marine-mismatch rows
MissingPart(rows) ==
    LET ms == SelectSeq(rows, LAMBDA r : ~IsMarineRow(r))
    IN [i \in DOMAIN ms |-> <<ms[i].responder_id, ms[i].issue>>]

RECURSIVE MissingThrough(_)
MissingThrough(k) ==
    IF k = 0 THEN <<>>
    ELSE MissingThrough(k - 1)
         \o [i \in DOMAIN MissingOf(k).rows |->
               <<MissingOf(k).rows[i].responder_id, MissingOf(k).rows[i].issue>>]

\* C8: the missing-value detector runs once per lookup's required list, and
\* the missing-value rows are returned in the order of the lookups: the rows
\* for an earlier lookup's list before the rows for a later lookup's list.
C8_MissingRowsInLookupOrder ==
    /\ pc \in {"detect", "marine", "return"} =>
          required_columns = [k \in DOMAIN rv.lookups |-> rv.lookups[k].required]
    /\ Succeeded =>
          MissingPart(result.anomalies) = MissingThrough(Len(rv.lookups))

\* Two lookups, each with rows of its own, and the two blocks differ.
C8_Witness ==
    /\ Succeeded
    /\ Len(rv.lookups) = 2
    /\ MissingOf(1).rows # <<>>
    /\ MissingOf(2).rows # <<>>
    /\ MissingOf(1).rows # MissingOf(2).rows

\* Records of the final table with survey "076" and marine "n".
MismatchedInFinal ==
    {i \in DOMAIN FullyJoined.rows :
        /\ FullyJoined.rows[i][rv.survey_column] = "076"
        /\ FullyJoined.rows[i].marine = "n"}

MarineRowsReturned ==
    {p \in DOMAIN result.anomalies : IsMarineRow(result.anomalies[p])}

\* The environment failed validation (bucket_name missing).
EnvironmentRejected ==
    error_message = handle_exception(Err("ValueError"), "Enrichment - Method")

\* C9: the marine-mismatch detector runs iff marine_mismatch_check is the
\* string "true"; for any other value no marine-mismatch row is returned and
\* the "marine" column need not exist.
C9_MarineGatedByFlag ==
    /\ pc = "marine" => rv.marine_mismatch_check = "true"
    /\ (Succeeded /\ rv.marine_mismatch_check = "true") =>
          /\ "marine" \in FullyJoined.cols
          /\ Cardinality(MarineRowsReturned) = Cardinality(MismatchedInFinal)
    /\ (Succeeded /\ rv.marine_mismatch_check # "true") =>
          MarineRowsReturned = {}
    /\ (Done /\ WellFormedEvent /\ rv.marine_mismatch_check # "true"
             /\ ~result.success /\ ~EnvironmentRejected) =>
          \/ IsErr(FullyJoined)
          \/ \E k \in DOMAIN rv.lookups : IsErr(MissingOf(k))

\* The flag is "True": a record that would be a mismatch is not reported.
C9_Witness ==
    /\ Succeeded /\ rv.marine_mismatch_check = "True"
    /\ "marine" \in FullyJoined.cols
    /\ MismatchedInFinal # {}

\* C10: every detector is evaluated on the table as it is after the last
\* configured join, never on an intermediate table, so a column supplied by a
\* later lookup is visible to the check of an earlier lookup's required list.
C10_DetectorsSeeFinalTable ==
    /\ pc \in {"detect", "marine", "return"} => data_df = FullyJoined
    /\ Succeeded => result.data = to_json(FullyJoined)

\* The first lookup requires "marine", which only the second lookup supplies,
\* and a record is reported as lacking it.
C10_Witness ==
    /\ Succeeded
    /\ Len(rv.lookups) = 2
    /\ "marine" \in Range(rv.lookups[1].required)
    /\ "marine" \notin JoinedThrough(1).cols
    /\ \E i \in DOMAIN MissingOf(1).rows :
          MissingOf(1).rows[i].issue = "marine missing in lookup."
    /\ \E i \in DOMAIN FullyJoined.rows : FullyJoined.rows[i].marine # Null

\* Record r of the returned table carries primary record p.
Carries(r, p) == \A c \in DOMAIN p : r[c] = p[c]

\* The rows of out are the records of prim in the order of prim, each carried
\* by one or more adjacent rows.
RECURSIVE InPrimaryOrder(_, _)
InPrimaryOrder(prim, out) ==
    IF prim = <<>> THEN out = <<>>
    ELSE /\ out # <<>>
         /\ Carries(Head(out), Head(prim))
         /\ \/ InPrimaryOrder(Tail(prim), Tail(out))
            \/ InPrimaryOrder(prim, Tail(out))

\* The join-column values of every configured lookup table are unique.
AllLookupKeysUnique ==
    \A k \in DOMAIN rv.lookups :
        LET t == bucket[rv.lookups[k].file_name]
        IN \A a, b \in DOMAIN t.rows :
              a # b => t.rows[a][rv.lookups[k].join_column]
                          # t.rows[b][rv.lookups[k].join_column]

\* C11 as stated: after any sequence of configured lookups the enriched table
\* has the row count of the primary input, its rows in the input's order.
C11_SameRowCount ==
    Succeeded =>
        /\ Len(result.data) = Len(rv.data)
        /\ \A i \in DOMAIN rv.data : Carries(result.data[i], rv.data[i])

\* C11 (amended): the enriched table has at least the row count of the
\* primary input, the same row count when the join-column values of every
\* configured lookup are unique, and its rows are in the order of the primary
\* input's rows (a record matched by several lookup records gives adjacent
\* rows).
C11_RowsInPrimaryOrder ==
    Succeeded =>
        /\ Len(result.data) >= Len(rv.data)
        /\ AllLookupKeysUnique => Len(result.data) = Len(rv.data)
        /\ InPrimaryOrder(rv.data, result.data)

\* Two different primary records, one of them matched twice.
C11_Witness ==
    /\ Succeeded
    /\ Len(rv.data) = 2
    /\ rv.data[1] # rv.data[2]
    /\ Len(result.data) > Len(rv.data)

----------------------------------------------------------------------------
(* do_merge on an ill-formed lookup specification (SpecMerge) *)

\* The join column is absent from the primary table or from the lookup
\* table, or a column of columns_to_keep is absent from the lookup table.
MergeIllFormed ==
    \/ call.join_column \notin MergeP.cols
    \/ call.join_column \notin MergeL.cols
    \/ ~(MergeKept \subseteq MergeL.cols)

----------------------------------------------------------------------------
(* No deduplication of anomalies (Spec) *)

\* Positions (lookup, place in its required list) that name column c.
Listings(c) ==
    UNION {{<<k, n>> : n \in {m \in DOMAIN rv.lookups[k].required :
                                  rv.lookups[k].required[m] = c}} :
           k \in DOMAIN rv.lookups}

\* Records of the final table with identifier id that are null in column c.
NullRecords(id, c) ==
    {i \in DOMAIN FullyJoined.rows :
        /\ FullyJoined.rows[i].responder_id = id
        /\ FullyJoined.rows[i][c] = Null}

\* Returned anomaly rows that report column c missing for identifier id.
ReportedRows(id, c) ==
    {p \in DOMAIN result.anomalies :
        /\ result.anomalies[p].responder_id = id
        /\ result.anomalies[p].issue = c \o " missing in lookup."}

\* C13: anomalies are not deduplicated across lookups: a record null in a
\* column that two lookups list as required is reported once per lookup.
C13_OneRowPerListing ==
    Succeeded =>
        \A c \in FullyJoined.cols : \A id \in {"r1", "r2"} :
            Cardinality(ReportedRows(id, c))
                = Cardinality(Listings(c)) * Cardinality(NullRecords(id, c))

\* Two lookups list "marine", one record is null in it and reported twice.
C13_Witness ==
    /\ Succeeded
    /\ Len(rv.lookups) = 2
    /\ "marine" \in Range(rv.lookups[1].required)
    /\ "marine" \in Range(rv.lookups[2].required)
    /\ \E id \in {"r1", "r2"} :
          /\ Cardinality(NullRecords(id, "marine")) = 1
          /\ Cardinality(ReportedRows(id, "marine")) = 2

----------------------------------------------------------------------------
(* Two invocations with the same inputs (SpecTwice) *)

SecondDone == Done /\ previous # NoResult

\* What lambda_handler returns when the environment fails validation.
RejectedResult ==
    [success |-> FALSE,
     error |-> handle_exception(Err("ValueError"), "Enrichment - Method")]

----------------------------------------------------------------------------
(* enrichment_wrangler.py: lambda_handler, step by step *)

MaxCheckpoint == 2   \* largest checkpoint an event carries

WranglerEvents ==
    {[RuntimeVariables |-> [checkpoint |-> c]] : c \in 0..MaxCheckpoint}
    \cup {[RuntimeVariables |-> [run_id |-> "run1"]]}

\* The context argument: a mapping with the request id (as the tests pass
\* it), or a value from which ['aws_request_id'] cannot be read.
Contexts == {[aws_request_id |-> "666"], [function_name |-> "enrichment"]}

\* What the invoked method can answer: its result dict, as lambda_handler of
\* the method returns it.
MethodResponses ==
    {Returned("", [data |-> d, anomalies |-> a]) :
        d \in {<<>>, <<[responder_id |-> "r1", county |-> "c1"]>>},
        a \in {<<>>, <<[responder_id |-> "r1",
                       issue |-> "county missing in lookup."]>>}}
    \cup {Returned(handle_exception(Err("KeyError"), "Enrichment - Method"),
                   NoResult)}

\* The text an except clause of the wrangler builds for exception class e.
ErrorPrefix(e) ==
    CASE e.error = "ValueError" -> "Parameter validation error"
      [] e.error = "ClientError" -> "AWS Error "
      [] e.error = "KeyError" -> "Key Error in "
      [] e.error = "IncompleteReadError"
            -> "Incomplete Lambda response encountered in "
      [] OTHER -> "General Error in "

\* error_message after the except clause for e has run: the clause reads
\* context['aws_request_id'] while it builds the message; when that read
\* raises, the assignment never happens and error_message keeps its value.
AfterExcept(e, ctx, msg) ==
    IF "aws_request_id" \in DOMAIN ctx
    THEN ErrorPrefix(e) \o "Enrichment - Wrangler" \o " | Request ID: "
            \o ctx.aws_request_id
    ELSE msg

\* The finally block: its return statement ends the call, also while an
\* exception raised inside an except clause is in flight.
WranglerReturned(msg, cp) ==
    IF Len(msg) > 0
    THEN [success |-> FALSE, error |-> msg]
    ELSE IF cp.bound
         THEN [success |-> TRUE, checkpoint |-> cp.value]
         ELSE [raised |-> "UnboundLocalError"]

\* An exception e raised inside the try block.
\* cp is the checkpoint local at that point.
WranglerRaise(e, cp) ==
    /\ w_error_message' = AfterExcept(e, context, w_error_message)
    /\ w_result' = WranglerReturned(w_error_message', cp)
    /\ w_pc' = "failed"

InitWrangler ==
    /\ pc = "unit"
    /\ event = NoResult
    /\ data_df = EmptyFrame
    /\ required_columns = <<>>
    /\ anomalies = EmptyFrame
    /\ idx = 0
    /\ error_message = ""
    /\ result = NoResult
    /\ previous = NoResult
    /\ bucket = <<>>
    /\ call = NoResult
    /\ ret = NoResult
    /\ w_pc = "start"
    /\ w_event \in WranglerEvents
    /\ context \in Contexts
    /\ checkpoint = Unbound
    /\ w_output = NoResult
    /\ sqs = <<>>
    /\ sns = <<>>
    /\ w_error_message = ""
    /\ w_result = NoResult

methodVars == <<pc, event, bucket, data_df, required_columns, anomalies, idx,
                error_message, result, previous, call, ret>>

\* reading the checkpoint, validating the environment
W_Begin ==
    /\ w_pc = "start"
    /\ \E environ_ok \in BOOLEAN :
          IF "checkpoint" \notin DOMAIN w_event.RuntimeVariables
          THEN /\ checkpoint' = checkpoint
               /\ WranglerRaise(Err("KeyError"), checkpoint)
          ELSE /\ checkpoint' = Bound(w_event.RuntimeVariables.checkpoint)
               /\ IF environ_ok
                  THEN /\ w_pc' = "get_from_s3"
                       /\ UNCHANGED <<w_error_message, w_result>>
                  ELSE WranglerRaise(Err("ValueError"), checkpoint')
    /\ UNCHANGED <<w_event, context, w_output, sqs, sns, methodVars>>

\* get_from_s3 and wrangle_data
W_GetFromS3 ==
    /\ w_pc = "get_from_s3"
    /\ \E outcome \in {"ok", "ClientError", "Exception"} :
          IF outcome = "ok"
          THEN /\ w_pc' = "invoke"
               /\ UNCHANGED <<w_error_message, w_result>>
          ELSE WranglerRaise(Err(outcome), checkpoint)
    /\ UNCHANGED <<w_event, context, checkpoint, w_output, sqs, sns,
                   methodVars>>

\* lambda_client.invoke, reading and parsing the payload
W_Invoke ==
    /\ w_pc = "invoke"
    /\ \/ \E response \in MethodResponses :
             /\ w_output' = response
             /\ w_pc' = "extract"
             /\ UNCHANGED <<w_error_message, w_result>>
       \/ \E e \in {"ClientError", "IncompleteReadError"} :
             /\ WranglerRaise(Err(e), checkpoint)
             /\ UNCHANGED w_output
    /\ UNCHANGED <<w_event, context, checkpoint, sqs, sns, methodVars>>

\* anomalies = final_output["anomalies"]; final_output = final_output["data"]
W_Extract ==
    /\ w_pc = "extract"
    /\ IF {"anomalies", "data"} \subseteq DOMAIN w_output
       THEN /\ w_output' = [anomalies |-> w_output.anomalies,
                            final_output |-> w_output.data]
            /\ w_pc' = "send_sqs"
            /\ UNCHANGED <<w_error_message, w_result>>
       ELSE /\ WranglerRaise(Err("KeyError"), checkpoint)
            /\ UNCHANGED w_output
    /\ UNCHANGED <<w_event, context, checkpoint, sqs, sns, methodVars>>

\* send_sqs_message
W_SendSqs ==
    /\ w_pc = "send_sqs"
    /\ \E outcome \in {"ok", "ClientError"} :
          IF outcome = "ok"
          THEN /\ sqs' = Append(sqs, w_output.final_output)
               /\ w_pc' = "send_sns"
               /\ UNCHANGED <<w_error_message, w_result>>
          ELSE /\ WranglerRaise(Err(outcome), checkpoint)
               /\ UNCHANGED sqs
    /\ UNCHANGED <<w_event, context, checkpoint, w_output, sns, methodVars>>

\* send_sns_message, checkpoint = checkpoint + 1, return
W_SendSns ==
    /\ w_pc = "send_sns"
    /\ \E outcome \in {"ok", "ClientError"} :
          IF outcome = "ok"
          THEN /\ sns' = Append(sns, [success |-> TRUE, module |-> "Enrichment",
                                      checkpoint |-> checkpoint.value,
                                      anomalies |-> w_output.anomalies,
                                      message |-> "Completed Enrichment"])
               /\ checkpoint' = Bound(checkpoint.value + 1)
               /\ w_result' = WranglerReturned(w_error_message, checkpoint')
               /\ w_pc' = "done"
               /\ UNCHANGED w_error_message
          ELSE /\ checkpoint' = checkpoint
               /\ WranglerRaise(Err(outcome), checkpoint)
               /\ UNCHANGED sns
    /\ UNCHANGED <<w_event, context, w_output, sqs, methodVars>>

NextWrangler ==
    W_Begin \/ W_GetFromS3 \/ W_Invoke \/ W_Extract \/ W_SendSqs \/ W_SendSns

SpecWrangler == InitWrangler /\ [][NextWrangler]_vars

----------------------------------------------------------------------------
(* The wrangler's result *)

WranglerDone == w_pc \in {"done", "failed"}

\* an exception was raised in one of the steps of the try block
WranglerRaised == w_pc = "failed"

HasRequestId == "aws_request_id" \in DOMAIN context

FailureResult ==
    /\ DOMAIN w_result = {"success", "error"}
    /\ w_result.success = FALSE
    /\ Len(w_result.error) > 0

SuccessResult ==
    /\ "success" \in DOMAIN w_result
    /\ w_result.success = TRUE

\* C15: whenever an exception is raised in a step of the wrangler
\* lambda_handler, whatever the context argument, the call returns
\* {"success": False, "error": <non-empty message>} and no exception escapes.
C15_AlwaysFailureResult == WranglerRaised => FailureResult

\* The same for a context from which the request id can be read.
C15_FailureResultWithRequestId ==
    (WranglerRaised /\ HasRequestId) => FailureResult

\* C16: success = True is returned only after the method was invoked, its
\* data sent to SQS and its anomalies published to SNS, in that order and
\* without error, and then the returned checkpoint is the input checkpoint
\* plus 1; success = True never comes with an unincremented checkpoint.
C16_SuccessOnlyAfterAllSteps ==
    (WranglerDone /\ SuccessResult) =>
        /\ w_pc = "done"
        /\ "final_output" \in DOMAIN w_output
        /\ sqs = <<w_output.final_output>>
        /\ Len(sns) = 1
        /\ sns[1].anomalies = w_output.anomalies
        /\ "checkpoint" \in DOMAIN w_event.RuntimeVariables
        /\ w_result.checkpoint = w_event.RuntimeVariables.checkpoint + 1

\* The same for a context from which the request id can be read.
C16_SuccessWithRequestId == HasRequestId => C16_SuccessOnlyAfterAllSteps

\* the method's response, as parsed, reports failure
MethodReportedFailure ==
    /\ w_output # NoResult
    /\ DOMAIN w_output = {"success", "error"}
    /\ w_output.success = FALSE

\* C17: when the method's response reports failure, the wrangler sends
\* nothing to SQS, publishes nothing to SNS and returns success = False.
C17_MethodFailureReported ==
    (WranglerDone /\ MethodReportedFailure) =>
        /\ sqs = <<>>
        /\ sns = <<>>
        /\ "success" \in DOMAIN w_result
        /\ w_result.success = FALSE

\* Nothing is sent after a failure response, whatever the context.
C17_NothingSentAfterFailure == MethodReportedFailure => (sqs = <<>> /\ sns = <<>>)

====
